---- MODULE Spec2Model ----
(***************************************************************************)
(* The order SAGA of temporal-orchestration-demo.                          *)
(*                                                                         *)
(* orderWorkflow (src/src/workflows/order-workflow.ts) is the coordinator: *)
(* it calls eight capabilities through proxyActivities, each call being an *)
(* await.  The capabilities are the activities of order-activities.ts      *)
(* (src/src/types/index.ts from line 252 on), which work on three          *)
(* module-level stores: orders, inventory and payments.                    *)
(*                                                                         *)
(* One coordinator action models the code that runs between two awaits of  *)
(* a capability (the sleep() calls are timers without any effect on the    *)
(* state, and are part of the action they follow).  One activity action    *)
(* models one attempt of one activity on the worker.                       *)
(***************************************************************************)
EXTENDS Integers, Sequences, FiniteSets, TLC

VARIABLES
    gateway,            \* which collaborators implement the capabilities
    request,            \* request[s]: the OrderData orderWorkflow was started with
    orders,             \* the orders Map: orderId -> status
    inventory,          \* the inventory Map: itemId -> [quantity, reserved]
    payments,           \* the payments Map, in insertion order
    pc,                 \* pc[s]: the await orderWorkflow is suspended at
    call,               \* call[s]: the capability call s is awaiting
    compensationSteps,  \* compensationSteps[s]: the local array of orderWorkflow
    i,                  \* i[s]: the index of the compensation loop (1-based)
    errorMessage,       \* errorMessage[s]: the local of the catch block
    paymentResult,      \* paymentResult[s]: what processPayment resolved with
    result,             \* result[s]: the WorkflowResult returned
    trace               \* trace[s]: the capability calls of s, as the coordinator saw them

vars == <<gateway, request, orders, inventory, payments, pc, call,
          compensationSteps, i, errorMessage, paymentResult, result, trace>>

coordVars == <<compensationSteps, i, errorMessage, paymentResult, result, trace>>
storeVars == <<orders, inventory, payments>>

(***************************************************************************)
(* Values                                                                  *)
(***************************************************************************)

\* a field that is absent (undefined) in the TypeScript object
Undefined == "undefined"

\* the order ids of the workflows that can be started
Sagas == {"o1", "o2"}

\* maximumAttempts of the retry policy
maximumAttempts == 3

\* the business rule of processPaymentActivity: amount > 1000 fails
PaymentLimit == 1000

\* Math.random() * 100, by its integer part
DrawRange == 100
Draws == 0 .. (DrawRange - 1)

ItemIds == {"item-1", "item-2", "item-3"}

\* const inventory = new Map([...]); reserved is absent, and read as (reserved || 0)
InitialInventory ==
    [id \in ItemIds |->
        [quantity |-> CASE id = "item-1" -> 10
                        [] id = "item-2" -> 5
                        [] id = "item-3" -> 8,
         reserved |-> 0]]

Item(id, q) == [itemId |-> id, quantity |-> q]

\* The orders a workflow is started with: the two of client.ts, one that is
\* short of stock on its second item, one for an item the inventory does not
\* hold, and one of exactly the payment limit.
OrderRequests ==
    { [items |-> <<Item("item-1", 2), Item("item-2", 1)>>, totalAmount |-> 400],
      [items |-> <<Item("item-1", 5), Item("item-3", 3)>>, totalAmount |-> 2700],
      [items |-> <<Item("item-1", 2), Item("item-2", 6)>>, totalAmount |-> 400],
      [items |-> <<Item("item-4", 1)>>, totalAmount |-> 400],
      [items |-> <<Item("item-3", 1)>>, totalAmount |-> 1000] }

NoRequest == [items |-> <<>>, totalAmount |-> 0]

ForwardCaps == <<"createOrder", "reserveInventory", "processPayment", "sendConfirmationEmail">>
CompensationCaps == {"cancelOrder", "releaseInventory", "refundPayment"}

\* the data a capability is called with (absent fields are Undefined / empty)
Data(orderId, items, amount, paymentId, reason) ==
    [orderId |-> orderId, items |-> items, amount |-> amount,
     paymentId |-> paymentId, reason |-> reason]

NoData == Data(Undefined, <<>>, 0, Undefined, Undefined)

NoCall == [cap |-> "none", input |-> NoData, attempt |-> 0, state |-> "none",
           success |-> FALSE, message |-> Undefined, paymentId |-> Undefined]

NoResult == [success |-> FALSE, orderId |-> Undefined, message |-> Undefined,
             paymentId |-> Undefined, error |-> Undefined]

Max(a, b) == IF a >= b THEN a ELSE b

(***************************************************************************)
(* The Activity Gateway: proxyActivities with its retry policy             *)
(***************************************************************************)

\* the coordinator calls a capability: the first attempt is scheduled
Schedule(cap, input) ==
    [cap |-> cap, input |-> input, attempt |-> 1, state |-> "scheduled",
     success |-> FALSE, message |-> Undefined, paymentId |-> Undefined]

\* a policy that takes a result with success: false for a failed attempt
CompleteRetriesFailure(c, success, message, paymentId) ==
    IF ~success /\ c.attempt < maximumAttempts
    THEN [c EXCEPT !.attempt = @ + 1]
    ELSE [c EXCEPT !.state = "completed", !.success = success,
                   !.message = message, !.paymentId = paymentId]

\* an attempt returned a result: the call resolves with it, whatever its success
Complete(c, success, message, paymentId) ==
    [c EXCEPT !.state = "completed", !.success = success,
              !.message = message, !.paymentId = paymentId]

\* a policy that reads maximumAttempts as the number of retries after the
\* first attempt
ThrowRetriesOnceMore(c, message) ==
    IF c.attempt <= maximumAttempts
    THEN [c EXCEPT !.attempt = @ + 1]
    ELSE [c EXCEPT !.state = "failed", !.message = message]

\* an attempt threw: it is attempted again, up to maximumAttempts attempts in
\* all, and then the call rejects with the fault
Throw(c, message) ==
    IF c.attempt < maximumAttempts
    THEN [c EXCEPT !.attempt = @ + 1]
    ELSE [c EXCEPT !.state = "failed", !.message = message]

Scheduled(s, cap) == call[s].cap = cap /\ call[s].state = "scheduled"

\* The results a collaborator may give where the repository's activity always
\* returns success: true.  gateway = "repo": the activities of this repository.
\* gateway = "any": any implementation of the capability, which may also
\* return an ActivityResult with success: false (success is a boolean).
Accepts == IF gateway = "repo" THEN {TRUE} ELSE BOOLEAN

Declined(c) == Complete(c, FALSE, "declined", Undefined)

(***************************************************************************)
(* The activities (order-activities.ts), one attempt each                  *)
(***************************************************************************)

\* createOrderActivity: orders.set(orderId, {..., status: 'created'})
createOrderActivity(s) ==
    /\ Scheduled(s, "createOrder")
    /\ \E accept \in Accepts :
         IF accept
         THEN /\ orders' = [orders EXCEPT ![call[s].input.orderId] = "created"]
              /\ call' = [call EXCEPT ![s] = Complete(@, TRUE, Undefined, Undefined)]
         ELSE /\ orders' = orders
              /\ call' = [call EXCEPT ![s] = Declined(@)]
    /\ UNCHANGED <<gateway, request, inventory, payments, pc, coordVars>>

\* the for loop of reserveInventoryActivity from item k on: it returns at the
\* first item that is unknown or short, leaving the items before it reserved
RECURSIVE reserveLoop(_, _, _)
reserveLoop(inv, items, k) ==
    IF k > Len(items)
    THEN [inventory |-> inv, success |-> TRUE,
          message |-> "Inventory reserved successfully"]
    ELSE LET item == items[k] IN
         IF item.itemId \notin DOMAIN inv \/ inv[item.itemId].quantity < item.quantity
         THEN [inventory |-> inv, success |-> FALSE,
               message |-> "Insufficient inventory for product " \o item.itemId]
         ELSE reserveLoop(
                  [inv EXCEPT ![item.itemId] =
                      [quantity |-> @.quantity - item.quantity,
                       reserved |-> @.reserved + item.quantity]],
                  items, k + 1)

reserveInventoryActivity(s) ==
    /\ Scheduled(s, "reserveInventory")
    /\ LET r == reserveLoop(inventory, call[s].input.items, 1) IN
         /\ inventory' = r.inventory
         /\ call' = [call EXCEPT ![s] = Complete(@, r.success, r.message, Undefined)]
    /\ UNCHANGED <<gateway, request, orders, payments, pc, coordVars>>

\* `payment-${Date.now()}-${random}`: a fresh identifier for each payment
NewPaymentId(pays) == "payment-" \o ToString(Len(pays) + 1)

\* a payment activity that looks at the scenario draw before the business rule
processPaymentOutcomeDrawFirst(amount, random, pays) ==
    IF random < 15
    THEN [kind |-> "throw", success |-> FALSE, paymentId |-> Undefined,
          message |-> "Payment API timeout - network connection failed"]
    ELSE IF random >= 15 /\ random < 25
    THEN [kind |-> "throw", success |-> FALSE, paymentId |-> Undefined,
          message |-> "Payment API server error 500 - Internal server error"]
    ELSE IF amount > PaymentLimit
    THEN [kind |-> "return", success |-> FALSE, paymentId |-> Undefined,
          message |-> "Payment failed: Amount exceeds limit of 1000"]
    ELSE IF random >= 25 /\ random < 30
    THEN [kind |-> "return", success |-> FALSE, paymentId |-> Undefined,
          message |-> "Payment failed: Invalid request format (400 Bad Request)"]
    ELSE IF random >= 30 /\ random < 33
    THEN [kind |-> "return", success |-> FALSE, paymentId |-> Undefined,
          message |-> "Payment failed: Invalid API credentials (401 Unauthorized)"]
    ELSE [kind |-> "return", success |-> TRUE, paymentId |-> NewPaymentId(pays),
          message |-> Undefined]

\* What one attempt of processPaymentActivity does for an amount and a draw
\* random: the business rule first, then the bands of the draw.
\* kind "return" is a returned result, kind "throw" a thrown Error.
processPaymentOutcome(amount, random, pays) ==
    IF amount > PaymentLimit
    THEN [kind |-> "return", success |-> FALSE, paymentId |-> Undefined,
          message |-> "Payment failed: Amount exceeds limit of 1000"]
    ELSE IF random < 15
    THEN [kind |-> "throw", success |-> FALSE, paymentId |-> Undefined,
          message |-> "Payment API timeout - network connection failed"]
    ELSE IF random >= 15 /\ random < 25
    THEN [kind |-> "throw", success |-> FALSE, paymentId |-> Undefined,
          message |-> "Payment API server error 500 - Internal server error"]
    ELSE IF random >= 25 /\ random < 30
    THEN [kind |-> "return", success |-> FALSE, paymentId |-> Undefined,
          message |-> "Payment failed: Invalid request format (400 Bad Request)"]
    ELSE IF random >= 30 /\ random < 33
    THEN [kind |-> "return", success |-> FALSE, paymentId |-> Undefined,
          message |-> "Payment failed: Invalid API credentials (401 Unauthorized)"]
    ELSE [kind |-> "return", success |-> TRUE, paymentId |-> NewPaymentId(pays),
          message |-> Undefined]

\* a payment activity that records the payment before it calls the payment
\* API, so that an attempt that throws leaves a payment behind
processPaymentActivityRecordsFirst(s) ==
    /\ Scheduled(s, "processPayment")
    /\ \E random \in Draws :
         LET o == processPaymentOutcome(call[s].input.amount, random, payments) IN
           /\ payments' =
                IF o.kind = "throw" \/ o.success
                THEN Append(payments, [paymentId |-> NewPaymentId(payments),
                                       orderId |-> call[s].input.orderId,
                                       amount |-> call[s].input.amount,
                                       status |-> "completed"])
                ELSE payments
           /\ call' = [call EXCEPT ![s] =
                IF o.kind = "throw"
                THEN Throw(@, o.message)
                ELSE Complete(@, o.success, o.message, o.paymentId)]
    /\ UNCHANGED <<gateway, request, orders, inventory, pc, coordVars>>

processPaymentActivity(s) ==
    /\ Scheduled(s, "processPayment")
    /\ \E random \in Draws :
         LET o == processPaymentOutcome(call[s].input.amount, random, payments) IN
           /\ payments' =
                IF o.kind = "return" /\ o.success
                THEN Append(payments, [paymentId |-> o.paymentId,
                                       orderId |-> call[s].input.orderId,
                                       amount |-> call[s].input.amount,
                                       status |-> "completed"])
                ELSE payments
           /\ call' = [call EXCEPT ![s] =
                IF o.kind = "throw"
                THEN Throw(@, o.message)
                ELSE Complete(@, o.success, o.message, o.paymentId)]
    /\ UNCHANGED <<gateway, request, orders, inventory, pc, coordVars>>

\* sendConfirmationEmailActivity: only logs
sendConfirmationEmailActivity(s) ==
    /\ Scheduled(s, "sendConfirmationEmail")
    /\ \E accept \in Accepts :
         call' = [call EXCEPT ![s] =
                     IF accept THEN Complete(@, TRUE, "Email sent", Undefined)
                     ELSE Declined(@)]
    /\ UNCHANGED <<gateway, request, storeVars, pc, coordVars>>

\* cancelOrderActivity: if (order) order.status = 'cancelled'
\* orders.get(orderId), and status = 'cancelled' when it is there
cancel(ords, orderId) ==
    [ords EXCEPT ![orderId] = IF @ = "none" THEN @ ELSE "cancelled"]

cancelOrderActivity(s) ==
    /\ Scheduled(s, "cancelOrder")
    /\ \E accept \in Accepts :
         IF accept
         THEN /\ orders' = cancel(orders, call[s].input.orderId)
              /\ call' = [call EXCEPT ![s] = Complete(@, TRUE, "Order cancelled", Undefined)]
         ELSE /\ orders' = orders
              /\ call' = [call EXCEPT ![s] = Declined(@)]
    /\ UNCHANGED <<gateway, request, inventory, payments, pc, coordVars>>

\* the for loop of releaseInventoryActivity from item k on
RECURSIVE releaseLoop(_, _, _)
releaseLoop(inv, items, k) ==
    IF k > Len(items) THEN inv
    ELSE LET item == items[k] IN
         IF item.itemId \notin DOMAIN inv
         THEN releaseLoop(inv, items, k + 1)
         ELSE releaseLoop(
                  [inv EXCEPT ![item.itemId] =
                      [quantity |-> @.quantity + item.quantity,
                       reserved |-> Max(0, @.reserved - item.quantity)]],
                  items, k + 1)

releaseInventoryActivity(s) ==
    /\ Scheduled(s, "releaseInventory")
    /\ \E accept \in Accepts :
         IF accept
         THEN /\ inventory' = releaseLoop(inventory, call[s].input.items, 1)
              /\ call' = [call EXCEPT ![s] = Complete(@, TRUE, "Inventory released", Undefined)]
         ELSE /\ inventory' = inventory
              /\ call' = [call EXCEPT ![s] = Declined(@)]
    /\ UNCHANGED <<gateway, request, orders, payments, pc, coordVars>>

\* a refund that looks the payment up under the orderId
refundByOrderId(pays, paymentId) ==
    [k \in 1 .. Len(pays) |->
        IF pays[k].orderId = paymentId
        THEN [pays[k] EXCEPT !.status = "refunded"]
        ELSE pays[k]]

\* payments.get(paymentId), and status = 'refunded' when it is there
refund(pays, paymentId) ==
    [k \in 1 .. Len(pays) |->
        IF pays[k].paymentId = paymentId
        THEN [pays[k] EXCEPT !.status = "refunded"]
        ELSE pays[k]]

refundPaymentActivity(s) ==
    /\ Scheduled(s, "refundPayment")
    /\ \E accept \in Accepts :
         IF accept
         THEN /\ payments' = refund(payments, call[s].input.paymentId)
              /\ call' = [call EXCEPT ![s] = Complete(@, TRUE, "Payment refunded", Undefined)]
         ELSE /\ payments' = payments
              /\ call' = [call EXCEPT ![s] = Declined(@)]
    /\ UNCHANGED <<gateway, request, orders, inventory, pc, coordVars>>

\* sendCancellationEmailActivity: only logs
sendCancellationEmailActivity(s) ==
    /\ Scheduled(s, "sendCancellationEmail")
    /\ \E accept \in Accepts :
         call' = [call EXCEPT ![s] =
                     IF accept THEN Complete(@, TRUE, "Cancellation email sent", Undefined)
                     ELSE Declined(@)]
    /\ UNCHANGED <<gateway, request, storeVars, pc, coordVars>>

\* The messages of the faults of the runtime, as opposed to the errors an
\* activity throws
RuntimeFaults == {"Activity task failed", "Activity task timed out"}

\* The sagas whose calls the runtime may fail.  (Faults of the runtime are
\* injected into one saga; the other saga of a two-saga run fails by the
\* results and errors of its activities only.)
FaultProne == {"o1"}

\* An attempt that fails outside the code of the activity (its worker is shut
\* down or lost and the task is handed out again): the retry policy applies.
\* The activity has not changed the stores.
ActivityTaskFailed(s) ==
    /\ s \in FaultProne
    /\ call[s].state = "scheduled"
    /\ call' = [call EXCEPT ![s] = Throw(@, "Activity task failed")]
    /\ UNCHANGED <<gateway, request, storeVars, pc, coordVars>>

\* line 14, scheduleToCloseTimeout: the deadline of the whole call, its
\* retries included, has passed: the call rejects with a timeout, whichever
\* attempt it is at.
ActivityTimeout(s) ==
    /\ s \in FaultProne
    /\ call[s].state = "scheduled"
    /\ call' = [call EXCEPT ![s] =
                   [@ EXCEPT !.state = "failed", !.message = "Activity task timed out"]]
    /\ UNCHANGED <<gateway, request, storeVars, pc, coordVars>>

(***************************************************************************)
(* The coordinator: orderWorkflow                                          *)
(***************************************************************************)

\* an entry of trace: the coordinator invoked cap (ev = "invoke"), or its
\* call resolved: with success: true ("ok"), with success: false ("fail"),
\* or by rejecting with a fault after the last attempt ("fault"); message is
\* the message of the result or of the fault
Ev(cap, ev, message) == [cap |-> cap, ev |-> ev, message |-> message]

Outcome(c) ==
    IF c.state = "failed" THEN "fault"
    ELSE IF c.success THEN "ok" ELSE "fail"

\* the entry for the resolution of call c
Resolution(c) == Ev(c.cap, Outcome(c), c.message)

\* an await that resumes only when the call returned a result
ResolvedByResult(s, cap) ==
    /\ pc[s] = cap
    /\ call[s].cap = cap
    /\ call[s].state = "completed"

\* the await of cap has resolved, and orderWorkflow resumes
Resolved(s, cap) ==
    /\ pc[s] = cap
    /\ call[s].cap = cap
    /\ call[s].state \in {"completed", "failed"}

\* a CompensationStep
Step(type, data) == [type |-> type, data |-> data]

\* orderWorkflow runs on to its next await (or to its return)
Goto(s, newPc, newCall, comp, idx, err, pay, res, tr) ==
    /\ pc' = [pc EXCEPT ![s] = newPc]
    /\ call' = [call EXCEPT ![s] = newCall]
    /\ compensationSteps' = [compensationSteps EXCEPT ![s] = comp]
    /\ i' = [i EXCEPT ![s] = idx]
    /\ errorMessage' = [errorMessage EXCEPT ![s] = err]
    /\ paymentResult' = [paymentResult EXCEPT ![s] = pay]
    /\ result' = [result EXCEPT ![s] = res]
    /\ trace' = [trace EXCEPT ![s] = tr]
    /\ UNCHANGED <<gateway, request, storeVars>>

\* await cap(input), suspended at newPc
Invoke(s, newPc, cap, input, comp, idx, err, pay, tr) ==
    Goto(s, newPc, Schedule(cap, input), comp, idx, err, pay, NoResult,
         Append(tr, Ev(cap, "invoke", Undefined)))

\* a catch block that sends the cancellation email without the reason
UnwindWithoutReason(s, k, comp, err, pay, tr) ==
    IF k >= 1
    THEN Invoke(s, "compensating", comp[k].type, comp[k].data, comp, k, err, pay, tr)
    ELSE Invoke(s, "sendCancellationEmail", "sendCancellationEmail",
                Data(s, <<>>, 0, Undefined, Undefined), comp, k, err, pay, tr)

\* The compensation loop from index k down (k is i + 1 of the code): the
\* switch on step.type calls the capability of that name with step.data;
\* when the loop is over, sendCancellationEmail is called.
Unwind(s, k, comp, err, pay, tr) ==
    IF k >= 1
    THEN Invoke(s, "compensating", comp[k].type, comp[k].data, comp, k, err, pay, tr)
    ELSE Invoke(s, "sendCancellationEmail", "sendCancellationEmail",
                Data(s, <<>>, 0, Undefined, err), comp, k, err, pay, tr)

\* catch (error): errorMessage = error.message, then the loop from the last entry
Catch(s, message, comp, pay, tr) ==
    Unwind(s, Len(comp), comp, message, pay, tr)

\* a try block that returns no paymentId
SucceededResultWithoutPaymentId(s) ==
    [success |-> TRUE, orderId |-> s,
     message |-> "Order processed successfully",
     paymentId |-> Undefined,
     error |-> Undefined]

\* lines 87-92: the WorkflowResult of the try block
\* (paymentResult[s] is the result of processPayment by then)
SucceededResult(s) ==
    [success |-> TRUE, orderId |-> s,
     message |-> "Order processed successfully",
     paymentId |-> paymentResult[s].paymentId,
     error |-> Undefined]

\* a catch block that returns no error
CancelledResultWithoutError(s) ==
    [success |-> FALSE, orderId |-> s,
     message |-> "Order cancelled and refunded",
     paymentId |-> Undefined,
     error |-> Undefined]

\* a catch block that returns the paymentId of the payment it refunded
CancelledResultWithPaymentId(s) ==
    [success |-> FALSE, orderId |-> s,
     message |-> "Order cancelled and refunded",
     paymentId |-> paymentResult[s].paymentId,
     error |-> errorMessage[s]]

\* a catch block that returns the error of the cancellation email when that
\* call rejected
CancelledResultWithLastError(s) ==
    [success |-> FALSE, orderId |-> s,
     message |-> "Order cancelled and refunded",
     paymentId |-> Undefined,
     error |-> IF call[s].state = "failed" THEN call[s].message ELSE errorMessage[s]]

\* a catch block that returns success: true
CancelledResultSucceeds(s) ==
    [success |-> TRUE, orderId |-> s,
     message |-> "Order cancelled and refunded",
     paymentId |-> Undefined,
     error |-> errorMessage[s]]

\* lines 134-139: the WorkflowResult of the catch block
CancelledResult(s) ==
    [success |-> FALSE, orderId |-> s,
     message |-> "Order cancelled and refunded",
     paymentId |-> Undefined,
     error |-> errorMessage[s]]

\* a loop that calls a compensation again when its call failed
LoopNextRetries(s) ==
    IF Outcome(call[s]) = "ok" THEN i[s] - 1 ELSE i[s]

\* a loop that is left when a compensation call fails
LoopNextBreaks(s) ==
    IF Outcome(call[s]) = "ok" THEN i[s] - 1 ELSE 0

\* lines 101, 119-123: the inner catch only logs, and the loop goes on with i--
LoopNext(s) == i[s] - 1

\* lines 28-37: the workflow starts and awaits createOrder
StartWorkflow(s) ==
    /\ pc[s] = "start"
    /\ Invoke(s, "createOrder", "createOrder",
              Data(s, request[s].items, request[s].totalAmount, Undefined, Undefined),
              <<>>, 0, Undefined, NoCall, trace[s])

\* a workflow that goes from createOrder to processPayment
AfterCreateOrderSkipsInventory(s) ==
    /\ Resolved(s, "createOrder")
    /\ LET c == call[s]
           tr == Append(trace[s], Resolution(c))
       IN IF c.state = "failed"
          THEN Catch(s, c.message, compensationSteps[s], paymentResult[s], tr)
          ELSE Invoke(s, "processPayment", "processPayment",
                      Data(s, <<>>, request[s].totalAmount, Undefined, Undefined),
                      Append(compensationSteps[s],
                             Step("cancelOrder", Data(s, <<>>, 0, Undefined, Undefined))),
                      i[s], errorMessage[s], paymentResult[s], tr)

\* lines 37-44: createOrder resolved; its result is not looked at
AfterCreateOrder(s) ==
    /\ Resolved(s, "createOrder")
    /\ LET c == call[s]
           tr == Append(trace[s], Resolution(c))
       IN IF c.state = "failed"
          THEN Catch(s, c.message, compensationSteps[s], paymentResult[s], tr)
          ELSE Invoke(s, "reserveInventory", "reserveInventory",
                      Data(s, request[s].items, 0, Undefined, Undefined),
                      Append(compensationSteps[s],
                             Step("cancelOrder", Data(s, <<>>, 0, Undefined, Undefined))),
                      i[s], errorMessage[s], paymentResult[s], tr)

\* lines 44-60: reserveInventory resolved; the releaseInventory step is pushed
\* before inventoryResult.success is tested
AfterReserveInventory(s) ==
    /\ Resolved(s, "reserveInventory")
    /\ LET c == call[s]
           tr == Append(trace[s], Resolution(c))
           comp == Append(compensationSteps[s],
                          Step("releaseInventory",
                               Data(s, request[s].items, 0, Undefined, Undefined)))
       IN IF c.state = "failed"
          THEN Catch(s, c.message, compensationSteps[s], paymentResult[s], tr)
          ELSE IF ~c.success
          THEN Catch(s, "Insufficient inventory", comp, paymentResult[s], tr)
          ELSE Invoke(s, "processPayment", "processPayment",
                      Data(s, <<>>, request[s].totalAmount, Undefined, Undefined),
                      comp, i[s], errorMessage[s], paymentResult[s], tr)

\* a workflow that pushes the refundPayment step before it tests
\* paymentResult.success
AfterProcessPaymentPushesFirst(s) ==
    /\ Resolved(s, "processPayment")
    /\ LET c == call[s]
           tr == Append(trace[s], Resolution(c))
           comp == Append(compensationSteps[s],
                          Step("refundPayment", Data(s, <<>>, 0, c.paymentId, Undefined)))
       IN IF c.state = "failed"
          THEN Catch(s, c.message, compensationSteps[s], paymentResult[s], tr)
          ELSE IF ~c.success
          THEN Catch(s, "Payment failed: " \o
                        (IF c.message = Undefined THEN "Unknown error" ELSE c.message),
                     comp, c, tr)
          ELSE Invoke(s, "sendConfirmationEmail", "sendConfirmationEmail",
                      Data(s, <<>>, request[s].totalAmount, Undefined, Undefined),
                      comp, i[s], errorMessage[s], c, tr)

\* a workflow that refunds the payment recorded last in the store, whichever
\* order it is for
AfterProcessPaymentRefundsLatest(s) ==
    /\ Resolved(s, "processPayment")
    /\ LET c == call[s]
           tr == Append(trace[s], Resolution(c))
       IN IF c.state = "failed"
          THEN Catch(s, c.message, compensationSteps[s], paymentResult[s], tr)
          ELSE IF ~c.success
          THEN Catch(s, "Payment failed: " \o
                        (IF c.message = Undefined THEN "Unknown error" ELSE c.message),
                     compensationSteps[s], c, tr)
          ELSE Invoke(s, "sendConfirmationEmail", "sendConfirmationEmail",
                      Data(s, <<>>, request[s].totalAmount, Undefined, Undefined),
                      IF c.paymentId # Undefined
                      THEN Append(compensationSteps[s],
                                  Step("refundPayment",
                                       Data(s, <<>>, 0,
                                            payments[Len(payments)].paymentId,
                                            Undefined)))
                      ELSE compensationSteps[s],
                      i[s], errorMessage[s], c, tr)

\* lines 60-83: processPayment resolved
AfterProcessPayment(s) ==
    /\ Resolved(s, "processPayment")
    /\ LET c == call[s]
           tr == Append(trace[s], Resolution(c))
       IN IF c.state = "failed"
          THEN Catch(s, c.message, compensationSteps[s], paymentResult[s], tr)
          ELSE IF ~c.success
          THEN Catch(s, "Payment failed: " \o
                        (IF c.message = Undefined THEN "Unknown error" ELSE c.message),
                     compensationSteps[s], c, tr)
          ELSE Invoke(s, "sendConfirmationEmail", "sendConfirmationEmail",
                      Data(s, <<>>, request[s].totalAmount, Undefined, Undefined),
                      IF c.paymentId # Undefined
                      THEN Append(compensationSteps[s],
                                  Step("refundPayment",
                                       Data(s, <<>>, 0, c.paymentId, Undefined)))
                      ELSE compensationSteps[s],
                      i[s], errorMessage[s], c, tr)

\* lines 83-92: sendConfirmationEmail resolved; its result is not looked at
AfterSendConfirmationEmail(s) ==
    /\ Resolved(s, "sendConfirmationEmail")
    /\ LET c == call[s]
           tr == Append(trace[s], Resolution(c))
       IN IF c.state = "failed"
          THEN Catch(s, c.message, compensationSteps[s], paymentResult[s], tr)
          ELSE Goto(s, "done", NoCall, compensationSteps[s], i[s], errorMessage[s],
                    paymentResult[s], SucceededResult(s), tr)

\* lines 101-124: a compensation call resolved, by a result that is not looked
\* at or by a fault that the inner catch logs; the loop goes on with i - 1
AfterCompensation(s) ==
    /\ pc[s] = "compensating"
    /\ call[s].state \in {"completed", "failed"}
    /\ Unwind(s, LoopNext(s), compensationSteps[s], errorMessage[s], paymentResult[s],
              Append(trace[s], Resolution(call[s])))

\* an await of sendCancellationEmail outside any try: a fault of the call
\* leaves the workflow function, and the workflow ends as failed
EmailUncaught(s) == IF call[s].state = "failed" THEN "thrown" ELSE "done"

\* lines 126-132: the await of sendCancellationEmail is inside a try whose
\* catch only logs, so a fault of this call does not leave the workflow
\* function: control reaches the return of line 134 either way
EmailCatch(s) == "done"

\* lines 126-139: sendCancellationEmail resolved or rejected; the workflow returns
AfterSendCancellationEmail(s) ==
    /\ Resolved(s, "sendCancellationEmail")
    /\ Goto(s, EmailCatch(s), NoCall, compensationSteps[s], i[s], errorMessage[s],
            paymentResult[s], CancelledResult(s),
            Append(trace[s], Resolution(call[s])))

(***************************************************************************)
(* The specifications                                                      *)
(***************************************************************************)

\* the workflows of `started` have been started, each with one order
InitWith(started, gw) ==
    /\ gateway = gw
    /\ request \in [Sagas -> OrderRequests \cup {NoRequest}]
    /\ \A s \in Sagas : (request[s] = NoRequest) <=> (s \notin started)
    /\ orders = [s \in Sagas |-> "none"]
    /\ inventory = InitialInventory
    /\ payments = <<>>
    /\ pc = [s \in Sagas |-> IF s \in started THEN "start" ELSE "off"]
    /\ call = [s \in Sagas |-> NoCall]
    /\ compensationSteps = [s \in Sagas |-> <<>>]
    /\ i = [s \in Sagas |-> 0]
    /\ errorMessage = [s \in Sagas |-> Undefined]
    /\ paymentResult = [s \in Sagas |-> NoCall]
    /\ result = [s \in Sagas |-> NoResult]
    /\ trace = [s \in Sagas |-> <<>>]

Init == InitWith({"o1"}, "repo")

InitGateway == InitWith({"o1"}, "any")

Next ==
    \E s \in Sagas :
        \/ StartWorkflow(s)
        \/ AfterCreateOrder(s)
        \/ AfterReserveInventory(s)
        \/ AfterProcessPayment(s)
        \/ AfterSendConfirmationEmail(s)
        \/ AfterCompensation(s)
        \/ AfterSendCancellationEmail(s)
        \/ createOrderActivity(s)
        \/ reserveInventoryActivity(s)
        \/ processPaymentActivity(s)
        \/ sendConfirmationEmailActivity(s)
        \/ cancelOrderActivity(s)
        \/ releaseInventoryActivity(s)
        \/ refundPaymentActivity(s)
        \/ sendCancellationEmailActivity(s)
        \/ ActivityTaskFailed(s)
        \/ ActivityTimeout(s)

\* one saga, on the activities of the repository
Spec == Init /\ [][Next]_vars

\* one saga, on any collaborators that implement the capabilities
SpecGateway == InitGateway /\ [][Next]_vars

\* Two sagas interleaved on the shared stores, on the activities of the
\* repository: o1 places test case 1 of client.ts, o2 an order of one item
\* at the payment limit or an order that is short of item-2.
InitTwo ==
    /\ InitWith(Sagas, "repo")
    /\ request["o1"] = [items |-> <<Item("item-1", 2), Item("item-2", 1)>>,
                        totalAmount |-> 400]
    /\ request["o2"] \in {[items |-> <<Item("item-3", 1)>>, totalAmount |-> 1000],
                          [items |-> <<Item("item-1", 2), Item("item-2", 6)>>,
                           totalAmount |-> 400]}

SpecTwo == InitTwo /\ [][Next]_vars

\* the steps of orderWorkflow for s: the runtime runs the workflow whenever
\* the call it awaits has resolved
CoordinatorStep(s) ==
    \/ StartWorkflow(s)
    \/ AfterCreateOrder(s)
    \/ AfterReserveInventory(s)
    \/ AfterProcessPayment(s)
    \/ AfterSendConfirmationEmail(s)
    \/ AfterCompensation(s)
    \/ AfterSendCancellationEmail(s)

\* the steps of the call of s: an attempt of its activity ends, by a result,
\* by an error or by a fault of the runtime
CallStep(s) ==
    \/ createOrderActivity(s)
    \/ reserveInventoryActivity(s)
    \/ processPaymentActivity(s)
    \/ sendConfirmationEmailActivity(s)
    \/ cancelOrderActivity(s)
    \/ releaseInventoryActivity(s)
    \/ refundPaymentActivity(s)
    \/ sendCancellationEmailActivity(s)
    \/ ActivityTaskFailed(s)
    \/ ActivityTimeout(s)

\* Every attempt of a scheduled call ends (a worker polls the task queue, and
\* scheduleToCloseTimeout of line 14 ends the call otherwise), and the
\* workflow is resumed when its await has resolved.
Fairness == \A s \in Sagas : WF_vars(CoordinatorStep(s)) /\ WF_vars(CallStep(s))

\* SpecGateway with every call resolving and every workflow being resumed
SpecLive == InitGateway /\ [][Next]_vars /\ Fairness

(***************************************************************************)
(* Reading the history of a saga                                           *)
(***************************************************************************)

Range(seq) == {seq[k] : k \in 1 .. Len(seq)}

Reverse(seq) == [k \in 1 .. Len(seq) |-> seq[Len(seq) + 1 - k]]

CapsOf(seq) == [k \in 1 .. Len(seq) |-> seq[k].cap]

\* orderWorkflow has returned
Terminated(s) == pc[s] = "done"

\* the capabilities the coordinator invoked, in order
Invoked(s) == CapsOf(SelectSeq(trace[s], LAMBDA e : e.ev = "invoke"))

\* the compensation capabilities the coordinator invoked, in order
CompensationsInvoked(s) ==
    CapsOf(SelectSeq(trace[s],
                     LAMBDA e : e.ev = "invoke" /\ e.cap \in CompensationCaps))

\* the calls of cap that resolved as ev
Resolutions(s, cap, ev) ==
    SelectSeq(trace[s], LAMBDA e : e.cap = cap /\ e.ev = ev)

Returned(s, cap, ev) == Resolutions(s, cap, ev) # <<>>

\* the compensation of a forward step (README, Step Details)
CompensationOf(cap) ==
    CASE cap = "createOrder" -> "cancelOrder"
      [] cap = "reserveInventory" -> "releaseInventory"
      [] cap = "processPayment" -> "refundPayment"

\* the forward steps with a compensation that returned success, in order
ForwardSucceeded(s) ==
    CapsOf(SelectSeq(trace[s],
                     LAMBDA e : e.ev = "ok" /\ e.cap \in
                         {"createOrder", "reserveInventory", "processPayment"}))

CompensationsOf(caps) == [k \in 1 .. Len(caps) |-> CompensationOf(caps[k])]

(***************************************************************************)
(* The claims                                                              *)
(***************************************************************************)

\* C1: in every run that ends with success: false, the compensation
\* capabilities invoked are exactly the compensations of the forward steps that
\* returned success, in reverse order.  (Violated: releaseInventory is pushed
\* before inventoryResult.success is tested.)
C1_ReverseOfSucceeded ==
    \A s \in Sagas :
        (Terminated(s) /\ ~result[s].success) =>
            CompensationsInvoked(s) = Reverse(CompensationsOf(ForwardSucceeded(s)))

\* C2: when reserveInventory returned success: false, neither releaseInventory
\* nor refundPayment is ever invoked in that saga.  (Violated, as C1.)
C2_OnlyCancelOrder ==
    \A s \in Sagas :
        Returned(s, "reserveInventory", "fail") =>
            \A k \in 1 .. Len(CompensationsInvoked(s)) :
                CompensationsInvoked(s)[k] = "cancelOrder"

\* C3: in every run that ends with success: true the coordinator invoked
\* createOrder, reserveInventory, processPayment and sendConfirmationEmail, in
\* this order, each once, and each after the call before it had resolved.
C3_ForwardOrder ==
    \A s \in Sagas :
        (Terminated(s) /\ result[s].success) =>
            /\ Len(trace[s]) = 2 * Len(ForwardCaps)
            /\ \A k \in 1 .. Len(ForwardCaps) :
                 /\ trace[s][2 * k - 1] = Ev(ForwardCaps[k], "invoke", Undefined)
                 /\ trace[s][2 * k].cap = ForwardCaps[k]
                 /\ trace[s][2 * k].ev # "invoke"

\* a run ended with success: true
C3_Witness ==
    \E s \in Sagas :
        Terminated(s) /\ result[s].success /\ Invoked(s) = ForwardCaps

\* the compensations invoked when forward step cap rejects with a fault: those
\* of the steps before it, in reverse
UnwindAfter(cap) ==
    CASE cap = "createOrder" -> <<>>
      [] cap = "reserveInventory" -> <<"cancelOrder">>
      [] cap = "processPayment" -> <<"releaseInventory", "cancelOrder">>
      [] cap = "sendConfirmationEmail" ->
             <<"refundPayment", "releaseInventory", "cancelOrder">>

\* what a fault of a forward step leads to (holds)
FaultUnwinds ==
    \A s \in Sagas : \A k \in 1 .. Len(ForwardCaps) :
        (Terminated(s) /\ Returned(s, ForwardCaps[k], "fault")) =>
            /\ ~result[s].success
            /\ CompensationsInvoked(s) = UnwindAfter(ForwardCaps[k])

\* C4: a forward step that returns success: false leads to the control flow
\* that a fault of this step leads to: the run ends with success: false and
\* has invoked the same compensations in the same order.  (Violated for
\* reserveInventory: releaseInventory is invoked after success: false only.)
C4_FailureLikeFault ==
    \A s \in Sagas : \A k \in 1 .. Len(ForwardCaps) :
        (Terminated(s) /\ (\/ Returned(s, ForwardCaps[k], "fault")
                           \/ Returned(s, ForwardCaps[k], "fail"))) =>
            /\ ~result[s].success
            /\ CompensationsInvoked(s) = UnwindAfter(ForwardCaps[k])

CompensationTookPlace(s) ==
    \E k \in 1 .. Len(trace[s]) :
        /\ trace[s][k].ev = "invoke"
        /\ trace[s][k].cap \in CompensationCaps \cup {"sendCancellationEmail"}

C7_PaymentIdIffPaid ==
    \A s \in Sagas :
        Terminated(s) =>
            ((result[s].paymentId # Undefined) <=> Returned(s, "processPayment", "ok"))

\* C7 amended: the outcome of a terminated saga carries a paymentId iff it has
\* success: true, and it is then the paymentId processPayment returned, under
\* which the payment is recorded; an outcome with success: false carries none,
\* also when processPayment had succeeded.
C7_PaymentIdIffSucceeded ==
    \A s \in Sagas :
        Terminated(s) =>
            /\ (result[s].paymentId # Undefined) <=> result[s].success
            /\ result[s].success =>
                 /\ Returned(s, "processPayment", "ok")
                 /\ result[s].paymentId = paymentResult[s].paymentId
                 /\ \E k \in 1 .. Len(payments) :
                        /\ payments[k].paymentId = result[s].paymentId
                        /\ payments[k].orderId = s

\* the payment succeeded, the saga was compensated, and the outcome has no paymentId
C7_Witness ==
    \E s \in Sagas :
        /\ Terminated(s)
        /\ Returned(s, "processPayment", "ok")
        /\ ~result[s].success
        /\ result[s].paymentId = Undefined

\* the resolutions of forward steps that were not a success
ForwardFailures(s) ==
    SelectSeq(trace[s], LAMBDA e : e.cap \in Range(ForwardCaps) /\ e.ev \in {"fail", "fault"})

\* C8: the error of a compensated saga is the message of the failure that
\* triggered the compensation, and for an amount over the limit it is
\* 'Payment failed: Amount exceeds limit of 1000'.  (Violated: the error is
\* 'Insufficient inventory' for reserveInventory, and 'Payment failed: ' is put
\* before the message of processPayment, which starts with it already.)
C8_ErrorIsTriggerMessage ==
    \A s \in Sagas :
        (Terminated(s) /\ ~result[s].success) =>
            /\ ForwardFailures(s) # <<>>
            /\ result[s].error = ForwardFailures(s)[Len(ForwardFailures(s))].message
            /\ (Returned(s, "processPayment", "fail") /\ request[s].totalAmount > PaymentLimit)
                   => result[s].error = "Payment failed: Amount exceeds limit of 1000"

\* C9: refundPayment is invoked only after processPayment returned success with
\* a paymentId and sendConfirmationEmail failed; and a run in which
\* reserveInventory succeeded and processPayment failed invokes releaseInventory,
\* then cancelOrder, and no other compensation.
C9_RefundOnlyAfterPayment ==
    \A s \in Sagas :
        /\ Returned(s, "refundPayment", "invoke") =>
               /\ Returned(s, "processPayment", "ok")
               /\ paymentResult[s].paymentId # Undefined
               /\ \/ Returned(s, "sendConfirmationEmail", "fault")
                  \/ Returned(s, "sendConfirmationEmail", "fail")
        /\ ( /\ Returned(s, "reserveInventory", "ok")
             /\ \/ Returned(s, "processPayment", "fail")
                \/ Returned(s, "processPayment", "fault") ) =>
               /\ ~Returned(s, "refundPayment", "invoke")
               /\ Terminated(s) =>
                      CompensationsInvoked(s) = <<"releaseInventory", "cancelOrder">>

\* processPayment failed after reserveInventory had succeeded, and the saga
\* has terminated
C9_Witness ==
    \E s \in Sagas :
        /\ Terminated(s)
        /\ Returned(s, "reserveInventory", "ok")
        /\ Returned(s, "processPayment", "fail")
        /\ CompensationsInvoked(s) = <<"releaseInventory", "cancelOrder">>

\* the types of the entries of the ledger
Types(comp) == [k \in 1 .. Len(comp) |-> comp[k].type]

\* C10: the unwind is never cut short.  While the loop is at entry i, the
\* compensations of the entries from the last down to i have been invoked, in
\* this order; once the loop is over, the compensation of every entry of the
\* ledger has been invoked, in reverse order, whatever the calls resolved with.
C10_UnwindIsTotal ==
    \A s \in Sagas :
        /\ pc[s] = "compensating" =>
               CompensationsInvoked(s) =
                   Reverse(SubSeq(Types(compensationSteps[s]), i[s],
                                  Len(compensationSteps[s])))
        /\ (pc[s] = "sendCancellationEmail" \/ (Terminated(s) /\ ~result[s].success)) =>
               CompensationsInvoked(s) = Reverse(Types(compensationSteps[s]))

\* the first compensation call failed, by a result or by a fault, and the
\* compensations of the other entries were invoked all the same
C10_Witness ==
    \E s \in Sagas :
        /\ Terminated(s)
        /\ Len(compensationSteps[s]) = 3
        /\ Returned(s, "refundPayment", "fail")
        /\ Returned(s, "releaseInventory", "fault")
        /\ CompensationsInvoked(s) = <<"refundPayment", "releaseInventory", "cancelOrder">>

\* lines 47-49, 66-69, 93-95: the error the catch block is entered with when
\* the forward call that resolved as e ends the forward phase
TriggerError(e) ==
    IF e.ev = "fault" THEN e.message
    ELSE IF e.cap = "reserveInventory" THEN "Insufficient inventory"
    ELSE "Payment failed: " \o
             (IF e.message = Undefined THEN "Unknown error" ELSE e.message)

\* C11: the outcome of a compensated saga is a function of its forward phase
\* alone: success is false, the message is the fixed text, and the error is
\* the error of the forward failure that ended the forward phase, whatever the
\* compensation calls and sendCancellationEmail resolved with.
C11_OutcomeFromForwardPhase ==
    \A s \in Sagas :
        (Terminated(s) /\ ~result[s].success) =>
            /\ ForwardFailures(s) # <<>>
            /\ result[s] =
                   [success |-> FALSE, orderId |-> s,
                    message |-> "Order cancelled and refunded",
                    paymentId |-> Undefined,
                    error |-> TriggerError(ForwardFailures(s)[Len(ForwardFailures(s))])]

\* reserveInventory returned success: false, a compensation call failed and
\* sendCancellationEmail rejected, and the outcome has the error of the
\* forward failure
C11_Witness ==
    \E s \in Sagas :
        /\ Terminated(s)
        /\ Returned(s, "reserveInventory", "fail")
        /\ Returned(s, "releaseInventory", "fail")
        /\ Returned(s, "cancelOrder", "fault")
        /\ Returned(s, "sendCancellationEmail", "fault")
        /\ result[s].error = "Insufficient inventory"

\* C12: whatever the eight capabilities return or reject with, no fault leaves
\* orderWorkflow: the workflow never ends as failed, and it has a result
\* exactly when it has returned, which is one WorkflowResult for its order.
C12_AlwaysReturnsOutcome ==
    \A s \in Sagas :
        /\ pc[s] # "thrown"
        /\ Terminated(s) <=> result[s] # NoResult
        /\ Terminated(s) =>
               /\ result[s].success \in BOOLEAN
               /\ result[s].orderId = s
               /\ result[s].message \in {"Order processed successfully",
                                         "Order cancelled and refunded"}

\* processPayment rejected, every call of the catch block rejected as well,
\* and the workflow has returned its result
C12_Witness ==
    \E s \in Sagas :
        /\ Terminated(s)
        /\ Returned(s, "processPayment", "fault")
        /\ Returned(s, "releaseInventory", "fault")
        /\ Returned(s, "cancelOrder", "fault")
        /\ Returned(s, "sendCancellationEmail", "fault")
        /\ result[s] # NoResult

\* every compensation call of the run resolved with success: true
CompensationsSucceeded(s) ==
    \A k \in 1 .. Len(trace[s]) :
        (trace[s][k].cap \in CompensationCaps /\ trace[s][k].ev # "invoke") =>
            trace[s][k].ev = "ok"

\* C13: after a saga that ended with success: false and whose compensation
\* calls all succeeded, every item of the inventory has the quantity and the
\* reserved count it had before the saga (no other saga runs).  (Violated:
\* after reserveInventory returned success: false, releaseInventory gives back
\* the quantities of all the items of the order, also of those that were never
\* reserved.)
C13_InventoryRestored ==
    \A s \in Sagas :
        (Terminated(s) /\ ~result[s].success /\ CompensationsSucceeded(s)) =>
            inventory = InitialInventory

\* C14: a compensation executed a second time with the same input changes
\* nothing: in the state right after cancelOrder, releaseInventory or
\* refundPayment has executed (its call has completed and the coordinator has
\* not resumed), executing it again on the stores leaves orders, inventory and
\* payments as they are.  (Violated: releaseInventoryActivity adds the
\* quantities to the stock each time it runs.)
C14_CompensationsIdempotent ==
    \A s \in Sagas :
        (call[s].state = "completed" /\ call[s].success) =>
            /\ call[s].cap = "cancelOrder" =>
                   cancel(orders, call[s].input.orderId) = orders
            /\ call[s].cap = "releaseInventory" =>
                   releaseLoop(inventory, call[s].input.items, 1) = inventory
            /\ call[s].cap = "refundPayment" =>
                   refund(payments, call[s].input.paymentId) = payments

\* the payments recorded for the order of s
PaymentsOf(s) == SelectSeq(payments, LAMBDA p : p.orderId = s)

\* C15: for an amount over the limit, processPayment returns success: false
\* with the message of the business rule for every value of the draw; the
\* activity never throws and never returns success, and no payment is
\* recorded for the order.  (A call for such an amount rejects only by a
\* fault of the runtime, never by an error of the activity.)
C15_OverLimitDeclined ==
    \A s \in Sagas :
        (call[s].cap = "processPayment" /\ call[s].input.amount > PaymentLimit) =>
            /\ \A random \in Draws :
                   LET o == processPaymentOutcome(call[s].input.amount, random, payments)
                   IN /\ o.kind = "return"
                      /\ ~o.success
                      /\ o.paymentId = Undefined
                      /\ o.message = "Payment failed: Amount exceeds limit of 1000"
            /\ call[s].state = "completed" =>
                   /\ ~call[s].success
                   /\ call[s].message = "Payment failed: Amount exceeds limit of 1000"
            /\ call[s].state = "failed" => call[s].message \in RuntimeFaults
            /\ PaymentsOf(s) = <<>>

\* processPayment was called for 2700 and its first attempt returned success: false
C15_Witness ==
    \E s \in Sagas :
        /\ call[s].cap = "processPayment"
        /\ call[s].input.amount = 2700
        /\ call[s].state = "completed"
        /\ call[s].attempt = 1
        /\ ~call[s].success
        /\ payments = <<>>

\* C16: a call is attempted at most maximumAttempts (3) times: the number of
\* the running or last attempt is never above 3.  A fault raised by an attempt
\* rejects the call, and so reaches the coordinator, only at the third attempt,
\* after the two attempts before it failed too.  (The deadline of line 14 is
\* not a fault an attempt raises: it ends the call at whichever attempt it is.)
C16_AtMostThreeAttempts ==
    \A s \in Sagas :
        /\ call[s].state # "none" => call[s].attempt \in 1 .. maximumAttempts
        /\ (call[s].state = "failed" /\ call[s].message # "Activity task timed out") =>
               call[s].attempt = maximumAttempts

\* processPayment threw at each of its three attempts, and the call rejects
\* with the error of the third
C16_Witness ==
    \E s \in Sagas :
        /\ call[s].cap = "processPayment"
        /\ call[s].state = "failed"
        /\ call[s].attempt = maximumAttempts
        /\ call[s].message = "Payment API server error 500 - Internal server error"

\* C17 as claimed: a call that returned success: false has executed its
\* capability exactly once.  (Violated: attempts that threw may come before
\* the attempt that returns success: false.)
C17_ExecutedExactlyOnce ==
    \A s \in Sagas :
        (call[s].state = "completed" /\ ~call[s].success) => call[s].attempt = 1

\* C17 amended: an attempt that returns success: false is the last attempt of
\* its call.  The attempt of reserveInventory that finds an item short, and
\* the attempt of processPayment for an amount over the limit, complete the
\* call with success: false at that very attempt; a call completed with
\* success: false does not change until the coordinator resumes; and when the
\* coordinator resumes from such a call of processPayment, its next call is the
\* compensation of the last entry of the ledger, releaseInventory.
C17_FailureIsNotRetried ==
    [][\A s \in Sagas :
          /\ ( \/ /\ reserveInventoryActivity(s)
                  /\ ~reserveLoop(inventory, call[s].input.items, 1).success
               \/ /\ processPaymentActivity(s)
                  /\ call[s].input.amount > PaymentLimit ) =>
                 /\ call'[s].state = "completed"
                 /\ ~call'[s].success
                 /\ call'[s].attempt = call[s].attempt
          /\ (call[s].state = "completed" /\ ~call[s].success) =>
                 \/ call'[s] = call[s] /\ storeVars' = storeVars
                 \/ /\ Len(trace'[s]) > Len(trace[s])
                    /\ trace'[s][Len(trace[s]) + 1] = Resolution(call[s])
          /\ ( /\ Resolved(s, "processPayment")
               /\ call[s].state = "completed" /\ ~call[s].success
               /\ trace'[s] # trace[s] ) =>
                 /\ pc'[s] = "compensating"
                 /\ call'[s].cap = "releaseInventory"
                 /\ call'[s].state = "scheduled"
                 /\ call'[s].attempt = 1
      ]_vars

\* processPayment threw at its first attempt and returned success: false at
\* its second, and the coordinator has invoked releaseInventory
C17_Witness ==
    \E s \in Sagas :
        /\ Returned(s, "processPayment", "fail")
        /\ paymentResult[s].attempt = 2
        /\ pc[s] = "compensating"
        /\ Scheduled(s, "releaseInventory")
        /\ Len(trace[s]) = 7

\* C18: a saga whose forward steps all succeeded ends in the state a saga
\* without any failed attempt ends in, however many attempts its steps took:
\* the four forward steps were invoked in order and nothing else, the ledger
\* holds cancelOrder, releaseInventory and refundPayment, no compensation was
\* invoked, the outcome is the success record with the paymentId of the one
\* payment recorded for the order, and the inventory holds one reservation of
\* the items of the order.
C18_RetriedSuccessIsSuccess ==
    \A s \in Sagas :
        (Terminated(s) /\ \A k \in 1 .. Len(ForwardCaps) :
                              Returned(s, ForwardCaps[k], "ok")) =>
            /\ Invoked(s) = ForwardCaps
            /\ Len(trace[s]) = 2 * Len(ForwardCaps)
            /\ Types(compensationSteps[s]) =
                   <<"cancelOrder", "releaseInventory", "refundPayment">>
            /\ ~CompensationTookPlace(s)
            /\ Len(PaymentsOf(s)) = 1
            /\ PaymentsOf(s)[1].status = "completed"
            /\ PaymentsOf(s)[1].amount = request[s].totalAmount
            /\ result[s] = [success |-> TRUE, orderId |-> s,
                            message |-> "Order processed successfully",
                            paymentId |-> PaymentsOf(s)[1].paymentId,
                            error |-> Undefined]
            /\ orders[s] = "created"
            /\ inventory = reserveLoop(InitialInventory, request[s].items, 1).inventory

\* processPayment failed at its first two attempts and succeeded at the third,
\* and the saga has ended with success: true
C18_Witness ==
    \E s \in Sagas :
        /\ Terminated(s)
        /\ result[s].success
        /\ paymentResult[s].cap = "processPayment"
        /\ paymentResult[s].attempt = maximumAttempts
        /\ paymentResult[s].success

\* the coordinator is in its catch block
InCatch(s) == pc[s] \in {"compensating", "sendCancellationEmail"}

\* C19: once the coordinator is in its catch block it stays there until the
\* workflow returns, and it returns with success: false; from then on it
\* invokes compensations and sendCancellationEmail only, never a forward
\* capability; and in the history no forward capability is invoked after the
\* first compensation or cancellation email.
C19_NoWayBack ==
    [][\A s \in Sagas :
          /\ InCatch(s) =>
                 /\ InCatch(s)' \/ (Terminated(s)' /\ ~result'[s].success)
                 /\ call'[s].cap \notin Range(ForwardCaps)
                 /\ compensationSteps'[s] = compensationSteps[s]
                 /\ errorMessage'[s] = errorMessage[s]
          /\ \A k \in 1 .. Len(trace'[s]) :
                 (trace'[s][k].cap \in CompensationCaps \cup {"sendCancellationEmail"}) =>
                     \A j \in (k + 1) .. Len(trace'[s]) :
                         trace'[s][j].cap \notin Range(ForwardCaps)
      ]_vars

\* processPayment had succeeded, sendConfirmationEmail rejected, and the saga
\* went through the three compensations to success: false
C19_Witness ==
    \E s \in Sagas :
        /\ Terminated(s)
        /\ ~result[s].success
        /\ Returned(s, "processPayment", "ok")
        /\ CompensationsInvoked(s) = <<"refundPayment", "releaseInventory", "cancelOrder">>
        /\ Invoked(s)[Len(Invoked(s))] = "sendCancellationEmail"

\* the compensation calls of the run that have resolved
CompensationsResolved(s) ==
    SelectSeq(trace[s], LAMBDA e : e.cap \in CompensationCaps /\ e.ev # "invoke")

\* C20: sendCancellationEmail is invoked once the compensation of every entry
\* of the ledger has resolved, with the error of the catch block as its reason;
\* a saga that ended with success: false invoked it exactly once, as its last
\* call, and has the outcome of the catch block whatever that call resolved
\* with; a saga that ended with success: true never invoked it.
C20_CancellationEmailOnce ==
    \A s \in Sagas :
        /\ pc[s] = "sendCancellationEmail" =>
               /\ call[s].cap = "sendCancellationEmail"
               /\ call[s].input.orderId = s
               /\ call[s].input.reason = errorMessage[s]
               /\ errorMessage[s] # Undefined
               /\ Len(CompensationsResolved(s)) = Len(compensationSteps[s])
               /\ trace[s][Len(trace[s])] = Ev("sendCancellationEmail", "invoke", Undefined)
        /\ (Terminated(s) /\ ~result[s].success) =>
               /\ Len(Resolutions(s, "sendCancellationEmail", "invoke")) = 1
               /\ trace[s][Len(trace[s]) - 1] =
                      Ev("sendCancellationEmail", "invoke", Undefined)
               /\ Len(CompensationsResolved(s)) = Len(compensationSteps[s])
               /\ result[s].error = errorMessage[s]
               /\ result[s].message = "Order cancelled and refunded"
        /\ (Terminated(s) /\ result[s].success) =>
               ~Returned(s, "sendCancellationEmail", "invoke")

\* the saga was compensated for 'Insufficient inventory', the cancellation
\* email was sent after the two compensations and returned success: false
C20_Witness ==
    \E s \in Sagas :
        /\ Terminated(s)
        /\ result[s].error = "Insufficient inventory"
        /\ Len(CompensationsResolved(s)) = 2
        /\ Returned(s, "sendCancellationEmail", "fail")

\* the number of entries of seq that are x
Count(seq, x) == Len(SelectSeq(seq, LAMBDA y : y = x))

\* C21: in one saga each compensation capability is invoked at most once, and
\* the ledger never holds two entries of the same type.
C21_AtMostOncePerKind ==
    \A s \in Sagas : \A cap \in CompensationCaps :
        /\ Count(CompensationsInvoked(s), cap) <= 1
        /\ Count(Types(compensationSteps[s]), cap) <= 1

\* the three compensations were invoked, each once, and two of them failed
C21_Witness ==
    \E s \in Sagas :
        /\ Terminated(s)
        /\ Returned(s, "refundPayment", "fault")
        /\ Returned(s, "releaseInventory", "fail")
        /\ \A cap \in CompensationCaps : Count(CompensationsInvoked(s), cap) = 1

\* C22: with every call resolving, every started saga terminates, and it
\* terminates in one of two ways: with success: true and no compensation, or
\* with success: false after its catch block.
C22_Terminates ==
    \A s \in Sagas :
        (pc[s] = "start") ~>
            (Terminated(s) /\ (result[s].success <=> ~CompensationTookPlace(s)))

\* sendConfirmationEmail rejected, refundPayment returned success: false, and
\* the saga has terminated all the same
C22_Witness ==
    \E s \in Sagas :
        /\ Terminated(s)
        /\ Returned(s, "sendConfirmationEmail", "fault")
        /\ Returned(s, "refundPayment", "fail")
        /\ ~result[s].success

\* C23: when createOrder, reserveInventory, processPayment and
\* sendConfirmationEmail all returned success, the workflow returns
\* success: true with the orderId of the request, the message 'Order processed
\* successfully' and the paymentId processPayment returned, and it has invoked
\* no compensation and no cancellation email.
C23_SucceededOutcome ==
    \A s \in Sagas :
        (Terminated(s) /\ \A k \in 1 .. Len(ForwardCaps) :
                              Returned(s, ForwardCaps[k], "ok")) =>
            /\ paymentResult[s].cap = "processPayment"
            /\ paymentResult[s].paymentId # Undefined
            /\ result[s] = [success |-> TRUE, orderId |-> s,
                            message |-> "Order processed successfully",
                            paymentId |-> paymentResult[s].paymentId,
                            error |-> Undefined]
            /\ CompensationsInvoked(s) = <<>>
            /\ ~Returned(s, "sendCancellationEmail", "invoke")

\* test case 1 of client.ts (2 of item-1, 1 of item-2, 400) has ended with
\* success: true and the paymentId of its payment
C23_Witness ==
    \E s \in Sagas :
        /\ Terminated(s)
        /\ request[s] = [items |-> <<Item("item-1", 2), Item("item-2", 1)>>,
                         totalAmount |-> 400]
        /\ result[s].success
        /\ result[s].paymentId = "payment-1"
        /\ Invoked(s) = ForwardCaps

\* the entry of the ledger of s is about the order of s: it carries the
\* orderId of s, the items of its request, and the paymentId of its own payment
OwnEntry(s, step) ==
    /\ step.data.orderId = s
    /\ step.type = "releaseInventory" => step.data.items = request[s].items
    /\ step.type = "refundPayment" =>
           /\ step.data.paymentId = paymentResult[s].paymentId
           /\ \E k \in 1 .. Len(payments) :
                  /\ payments[k].paymentId = step.data.paymentId
                  /\ payments[k].orderId = s

\* C24: with two sagas interleaved, every entry of the ledger of a saga is
\* about its own order, every compensation call of a saga has the data of the
\* entry of its own ledger, a saga invokes compensations only after a forward
\* failure of its own, and an order is cancelled or a payment refunded only by
\* a compensation call of the saga it belongs to.
C24_LedgerIsPrivate ==
    \A s \in Sagas :
        /\ \A k \in 1 .. Len(compensationSteps[s]) :
               OwnEntry(s, compensationSteps[s][k])
        /\ (pc[s] = "compensating" /\ call[s].state # "none") =>
               /\ i[s] \in 1 .. Len(compensationSteps[s])
               /\ call[s].cap = compensationSteps[s][i[s]].type
               /\ call[s].input = compensationSteps[s][i[s]].data
        /\ CompensationsInvoked(s) # <<>> => ForwardFailures(s) # <<>>
        /\ orders[s] = "cancelled" => Returned(s, "cancelOrder", "invoke")
        /\ \A k \in 1 .. Len(PaymentsOf(s)) :
               PaymentsOf(s)[k].status = "refunded" =>
                   Returned(s, "refundPayment", "invoke")

\* both sagas have paid; o1 was compensated and its payment refunded, and o2
\* has ended with success: true and its payment untouched
C24_Witness ==
    /\ Terminated("o1") /\ ~result["o1"].success
    /\ Terminated("o2") /\ result["o2"].success
    /\ Len(PaymentsOf("o1")) = 1 /\ Len(PaymentsOf("o2")) = 1
    /\ PaymentsOf("o1")[1].status = "refunded"
    /\ PaymentsOf("o2")[1].status = "completed"
    /\ orders["o1"] = "cancelled"
    /\ orders["o2"] = "created"

\* C25: an attempt of reserveInventory that returns success: false leaves the
\* inventory as it was before the attempt, for every item.  (Violated: the
\* loop has reserved the items before the one that is short, and it returns
\* without giving them back.)
C25_ReserveAllOrNothing ==
    [][\A s \in Sagas :
          (reserveInventoryActivity(s) /\ ~call'[s].success) =>
              inventory' = inventory
      ]_vars

\* the available quantity of no item is negative (holds)
NeverNegative == \A it \in DOMAIN inventory : inventory[it].quantity >= 0

\* C26: in every state, for every item, the available quantity is not negative
\* and available quantity plus reserved count is the initial stock.  (Violated:
\* a releaseInventory after a failed reservation adds quantities that were
\* never reserved.)
C26_StockConserved ==
    \A it \in DOMAIN inventory :
        /\ inventory[it].quantity >= 0
        /\ inventory[it].quantity + inventory[it].reserved =
               InitialInventory[it].quantity

\* C27: when a saga has ended with success: true, its order is 'created', its
\* payment is 'completed', and it invoked neither cancelOrder nor
\* refundPayment; when it has ended with success: false and all its
\* compensation calls succeeded, its order is 'cancelled' if it was created,
\* and every payment recorded for it is 'refunded'.
C27_StoresMatchOutcome ==
    \A s \in Sagas :
        /\ (Terminated(s) /\ result[s].success) =>
               /\ orders[s] = "created"
               /\ Len(PaymentsOf(s)) = 1
               /\ PaymentsOf(s)[1].status = "completed"
               /\ PaymentsOf(s)[1].paymentId = result[s].paymentId
               /\ ~Returned(s, "cancelOrder", "invoke")
               /\ ~Returned(s, "refundPayment", "invoke")
        /\ (Terminated(s) /\ ~result[s].success /\ CompensationsSucceeded(s)) =>
               /\ orders[s] \in {"none", "cancelled"}
               /\ Returned(s, "createOrder", "ok") => orders[s] = "cancelled"
               /\ \A k \in 1 .. Len(PaymentsOf(s)) :
                      PaymentsOf(s)[k].status = "refunded"

\* the payment was recorded, sendConfirmationEmail rejected, the three
\* compensations succeeded: the order is cancelled and the payment refunded
C27_Witness ==
    \E s \in Sagas :
        /\ Terminated(s)
        /\ ~result[s].success
        /\ CompensationsSucceeded(s)
        /\ Len(CompensationsResolved(s)) = 3
        /\ orders[s] = "cancelled"
        /\ Len(PaymentsOf(s)) = 1
        /\ PaymentsOf(s)[1].status = "refunded"

\* C28: an attempt of processPayment changes the payment store only when it
\* returns success: true, and then by recording one payment of the order under
\* the paymentId it returns; an attempt that throws or returns success: false
\* leaves the store as it is.  So, over all the attempts of its call, a saga
\* records at most one payment, and no recorded payment is over the limit.
C28_PaymentOnSuccessOnly ==
    [][\A s \in Sagas :
          /\ processPaymentActivity(s) =>
                 IF call'[s].state = "completed" /\ call'[s].success
                 THEN payments' =
                          Append(payments, [paymentId |-> call'[s].paymentId,
                                            orderId |-> s,
                                            amount |-> call[s].input.amount,
                                            status |-> "completed"])
                 ELSE payments' = payments
          /\ Len(SelectSeq(payments', LAMBDA p : p.orderId = s)) <= 1
          /\ \A k \in 1 .. Len(payments') : payments'[k].amount <= PaymentLimit
      ]_vars

\* processPayment threw twice and succeeded at its third attempt, and the
\* store holds the one payment of the order
C28_Witness ==
    \E s \in Sagas :
        /\ call[s].cap = "processPayment"
        /\ call[s].state = "completed"
        /\ call[s].success
        /\ call[s].attempt = maximumAttempts
        /\ Len(payments) = 1
        /\ payments[1].paymentId = call[s].paymentId

\* the draws of a band [lo, hi)
Band(lo, hi) == {r \in Draws : lo <= r /\ r < hi}

\* C29: what an attempt of processPayment does is decided by the amount first
\* and then by the draw r.  For an amount over the limit every draw gives the
\* result of the business rule.  For an amount of at most 1000: r < 15 throws
\* the timeout, 15 <= r < 25 throws the server error, 25 <= r < 33 returns
\* success: false (400 for r < 30, 401 from 30 on) and r >= 33 returns
\* success: true with a paymentId.  The four bands are disjoint and cover the
\* draws.
C29_DrawBands ==
    /\ Band(0, 15) \cup Band(15, 25) \cup Band(25, 33) \cup Band(33, DrawRange) = Draws
    /\ Cardinality(Band(0, 15)) + Cardinality(Band(15, 25))
           + Cardinality(Band(25, 33)) + Cardinality(Band(33, DrawRange)) = DrawRange
    /\ \A s \in Sagas :
           call[s].cap = "processPayment" =>
               \A r \in Draws :
                   LET o == processPaymentOutcome(call[s].input.amount, r, payments) IN
                   IF call[s].input.amount > PaymentLimit
                   THEN /\ o.kind = "return" /\ ~o.success
                        /\ o.message = "Payment failed: Amount exceeds limit of 1000"
                   ELSE /\ r \in Band(0, 15) =>
                            /\ o.kind = "throw"
                            /\ o.message = "Payment API timeout - network connection failed"
                        /\ r \in Band(15, 25) =>
                            /\ o.kind = "throw"
                            /\ o.message =
                                   "Payment API server error 500 - Internal server error"
                        /\ r \in Band(25, 33) =>
                            /\ o.kind = "return" /\ ~o.success
                            /\ o.paymentId = Undefined
                            /\ o.message =
                                 IF r < 30
                                 THEN "Payment failed: Invalid request format (400 Bad Request)"
                                 ELSE "Payment failed: Invalid API credentials (401 Unauthorized)"
                        /\ r \in Band(33, DrawRange) =>
                            /\ o.kind = "return" /\ o.success
                            /\ o.paymentId # Undefined

\* processPayment was called for exactly 1000 and an attempt returned
\* success: true with a paymentId
C29_Witness ==
    \E s \in Sagas :
        /\ call[s].cap = "processPayment"
        /\ call[s].input.amount = PaymentLimit
        /\ call[s].state = "completed"
        /\ call[s].success
        /\ call[s].paymentId # Undefined

\* the quantity of item it in a list of items
RECURSIVE Quantity(_, _)
Quantity(items, it) ==
    IF items = <<>> THEN 0
    ELSE (IF Head(items).itemId = it THEN Head(items).quantity ELSE 0)
             + Quantity(Tail(items), it)

\* C30: releaseInventory gives back exactly what the reserveInventory of the
\* same saga took.  A successful attempt of reserveInventory moves the
\* quantities of its items from available to reserved, and the
\* releaseInventory of a saga whose reservation had succeeded moves the same
\* quantities back, for every item, whatever the other saga did to the same
\* items in between.  (Violated with two sagas: a releaseInventory of the
\* other saga, run after its reservation failed, has taken the reserved count
\* down, and the release is cut off at 0.)
C30_ReleaseUndoesReserve ==
    [][\A s \in Sagas : \A it \in DOMAIN inventory :
          /\ (reserveInventoryActivity(s) /\ call'[s].success) =>
                 /\ inventory'[it].quantity =
                        inventory[it].quantity - Quantity(call[s].input.items, it)
                 /\ inventory'[it].reserved =
                        inventory[it].reserved + Quantity(call[s].input.items, it)
          /\ ( /\ releaseInventoryActivity(s)
               /\ Returned(s, "reserveInventory", "ok") ) =>
                 /\ inventory'[it].quantity =
                        inventory[it].quantity + Quantity(call[s].input.items, it)
                 /\ inventory'[it].reserved =
                        inventory[it].reserved - Quantity(call[s].input.items, it)
      ]_vars

====
